---- MODULE Spec2Model ----
(***************************************************************************)
(* The client-side package browser that generate_files.py embeds in every  *)
(* category page: the script of the page template (lines 44-134).          *)
(*                                                                         *)
(* Text is a sequence of one-character strings, so that trimming, case     *)
(* conversion, charAt and indexOf are computed character by character.     *)
(* A JavaScript value is a record [type, s, n]: the text of a string in s, *)
(* a number in n as an integer count of hundredths (9.5 is 950).           *)
(***************************************************************************)
EXTENDS Integers, Sequences, FiniteSets, TLC

VARIABLES
    packages,       \* var packages (line 50)
    activeLetter,   \* var activeLetter (line 51)
    searchValue,    \* searchInput.value, the text in #package-search (line 40)
    container,      \* container.innerHTML, the content of #category-packages
    alphabet,       \* alphabetContainer.innerHTML: data-letter of each button
    activeBtns,     \* the letters whose button carries the class "active"
    listeners,      \* whether the input and click listeners are registered
    promise,        \* the fetch promise chain: pending, fulfilled or rejected
    uncaught,       \* whether a listener ended in an uncaught TypeError
    response        \* the parsed content of the data file the page fetches

vars == <<packages, activeLetter, searchValue, container, alphabet,
          activeBtns, listeners, promise, uncaught, response>>

----------------------------------------------------------------------------
(* Bounds of the model *)

\* the longest list built from every combination of the sample records
MaxLen == 1

\* the length of the long lists, which exceed the display cap
LongLen == 52

----------------------------------------------------------------------------
(* JavaScript values and strings *)

Null == "null"

Undefined == [type |-> "undefined", s |-> <<>>, n |-> 0]

Str(text) == [type |-> "string", s |-> text, n |-> 0]

Num(hundredths) == [type |-> "number", s |-> <<>>, n |-> hundredths]

letters == <<"A","B","C","D","E","F","G","H","I","J","K","L","M",
             "N","O","P","Q","R","S","T","U","V","W","X","Y","Z">>

lowerLetters == <<"a","b","c","d","e","f","g","h","i","j","k","l","m",
                  "n","o","p","q","r","s","t","u","v","w","x","y","z">>

Range(f) == {f[i] : i \in DOMAIN f}

Letters == Range(letters)

IndexIn(c, alpha) == CHOOSE i \in DOMAIN alpha : alpha[i] = c

\* the upper-case letter of each lower-case letter, and the converse
UpperOf == [c \in Range(lowerLetters) |-> letters[IndexIn(c, lowerLetters)]]

LowerOf == [c \in Letters |-> lowerLetters[IndexIn(c, letters)]]

CharToUpper(c) == IF c \in DOMAIN UpperOf THEN UpperOf[c] ELSE c

CharToLower(c) == IF c \in DOMAIN LowerOf THEN LowerOf[c] ELSE c

\* String.prototype.toUpperCase / toLowerCase
toUpperCase(text) == [i \in DOMAIN text |-> CharToUpper(text[i])]

toLowerCase(text) == [i \in DOMAIN text |-> CharToLower(text[i])]

\* String.prototype.trim: drops the white space at both ends
trim(text) ==
    LET kept == {i \in DOMAIN text : text[i] # " "}
        first == CHOOSE i \in kept : \A j \in kept : i <= j
        last == CHOOSE i \in kept : \A j \in kept : j <= i
    IN IF kept = {} THEN <<>> ELSE SubSeq(text, first, last)

\* String.prototype.charAt(0): the empty string when there is no character
charAt0(text) == IF Len(text) = 0 THEN <<>> ELSE <<text[1]>>

\* String.prototype.indexOf(q): the first 0-based position of q, or -1
indexOf(text, q) ==
    LET hits == {i \in 0..(Len(text) - Len(q)) :
                    SubSeq(text, i + 1, i + Len(q)) = q}
    IN IF hits = {} THEN -1 ELSE CHOOSE i \in hits : \A j \in hits : i <= j

\* the truthiness of a value, as || and if () test it
Truthy(v) ==
    CASE v.type = "string" -> v.s # <<>>
      [] v.type = "number" -> v.n # 0
      [] OTHER -> FALSE

digits == <<"0","1","2","3","4","5","6","7","8","9">>

Digits == Range(digits)

RECURSIVE IntToText(_)
IntToText(k) ==
    IF k < 10 THEN <<digits[k + 1]>>
    ELSE IntToText(k \div 10) \o <<digits[(k % 10) + 1]>>

\* Number.prototype.toFixed(1) of a non-negative number given in hundredths,
\* rounded to the nearest tenth (the sample scores lie on no tie)
toFixed1(hundredths) ==
    LET tenths == (hundredths + 5) \div 10
    IN IntToText(tenths \div 10) \o <<".">> \o <<digits[(tenths % 10) + 1]>>

\* the text a string or undefined value contributes to a concatenation
Concat(v) ==
    CASE v.type = "string" -> v.s
      [] v.type = "undefined" -> <<"u","n","d","e","f","i","n","e","d">>

----------------------------------------------------------------------------
(* The records of the data file.  A property the file leaves out reads as *)
(* undefined.                                                              *)

Pkg(name, title, url, score) ==
    [package_name |-> name, title |-> title, url |-> url, score |-> score]

dplyr == <<"d","p","l","y","r">>
dataTable == <<"d","a","t","a",".","t","a","b","l","e">>
ggplot2 == <<"g","g","p","l","o","t","2">>
DBI == <<"D","B","I">>
Plotting == <<"P","l","o","t","t","i","n","g">>

\* {"package_name": "dplyr", "score": 9.5}
RecDplyr == Pkg(Str(dplyr), Undefined, Undefined, Num(950))

\* {"package_name": "data.table", "url": "/dt", "score": 9.12}
RecDataTable == Pkg(Str(dataTable), Undefined, Str(<<"/","d","t">>), Num(912))

\* {"package_name": "ggplot2", "title": "Plotting"}
RecGgplot2 == Pkg(Str(ggplot2), Str(Plotting), Undefined, Undefined)

\* {"package_name": "DBI"}: no title, no url, no score
RecDBI == Pkg(Str(DBI), Undefined, Undefined, Undefined)

\* {"package_name": "DT", "title": "", "url": "", "score": "9"}
RecEmpty == Pkg(Str(<<"D","T">>), Str(<<>>), Str(<<>>), Str(<<"9">>))

\* {"package_name": "ggplot2", "title": "Plotting", "url": "/gg", "score": 0}
RecZero == Pkg(Str(ggplot2), Str(Plotting), Str(<<"/","g","g">>), Num(0))

\* {"title": "Plotting", "score": 9.5}: the required package_name is missing
RecNameless == Pkg(Undefined, Str(Plotting), Undefined, Num(950))

Records == {RecDplyr, RecDataTable, RecGgplot2, RecDBI, RecEmpty, RecZero}

ListsOver(S) == UNION {[1..k -> S] : k \in 0..MaxLen}

\* the list of the scenario: dplyr, data.table, ggplot2
Scenario == <<RecDplyr, RecDataTable, RecGgplot2>>

\* every sample record, the names in no alphabetical order
Mixed == <<RecGgplot2, RecDBI, RecEmpty, RecZero, RecDataTable, RecDplyr>>

\* more records than the display cap, all of them starting with D
LongList == [i \in 1..LongLen |-> IF i % 2 = 1 THEN RecDplyr ELSE RecDataTable]

\* the data files whose records all carry package_name
Data == ListsOver(Records) \cup {Scenario, Mixed, LongList}

\* the data files in which some record lacks package_name
MalformedData ==
    {l \in ListsOver(Records \cup {RecNameless}) :
        \E i \in DOMAIN l : l[i] = RecNameless}
    \cup {<<RecDplyr, RecNameless, RecGgplot2>>,
          <<RecNameless, RecDataTable>>, <<RecDBI, RecNameless>>}

\* the texts the user types into the search box
Texts == {<<>>, <<" ">>, <<"d","a">>, <<" ","D","a"," ">>, <<"b">>, <<"z">>}

----------------------------------------------------------------------------
(* renderPackages and applyFilters *)

\* the display cap of renderPackages
MaxCards == 50

Min(a, b) == IF a < b THEN a ELSE b

\* a card whose score badge tests the score for truth, not for its type
CardScoreTruthy(pkg) ==
    [href |-> IF Truthy(pkg.url) THEN Concat(pkg.url) ELSE <<"#">>,
     name |-> Concat(pkg.package_name),
     score |-> IF Truthy(pkg.score) /\ pkg.score.type = "number"
               THEN toFixed1(pkg.score.n)
               ELSE <<"N","/","A">>,
     description |-> IF Truthy(pkg.title) THEN Concat(pkg.title)
                     ELSE <<"N","o"," ","d","e","s","c","r","i","p","t","i","o","n">>]

\* the card of one record (lines 56-63)
Card(pkg) ==
    [href |-> IF Truthy(pkg.url) THEN Concat(pkg.url) ELSE <<"#">>,
     name |-> Concat(pkg.package_name),
     score |-> IF pkg.score.type = "number" THEN toFixed1(pkg.score.n)
               ELSE <<"N","/","A">>,
     description |-> IF Truthy(pkg.title) THEN Concat(pkg.title)
                     ELSE <<"N","o"," ","d","e","s","c","r","i","p","t","i","o","n">>]

\* a count taken after the truncation
ResultsCountShown(list) == Min(Len(list), MaxCards)

\* the number in the results-count line (line 54)
ResultsCount(list) == Len(list)

\* the number of cards the loop emits (line 55)
CardCount(list) == Min(Len(list), MaxCards)

\* a renderer that takes an empty list for a failure
renderPackagesEmptyFails(list) ==
    IF list = <<>> THEN [kind |-> "error", count |-> 0, cards |-> <<>>]
    ELSE [kind |-> "list",
          count |-> ResultsCount(list),
          cards |-> [i \in 1..CardCount(list) |-> Card(list[i])]]

\* renderPackages(list): the markup assigned to container.innerHTML
renderPackages(list) ==
    [kind |-> "list",
     count |-> ResultsCount(list),
     cards |-> [i \in 1..CardCount(list) |-> Card(list[i])]]

LoadingMarkup == [kind |-> "loading", count |-> 0, cards |-> <<>>]

ErrorMarkup == [kind |-> "error", count |-> 0, cards |-> <<>>]

\* var query of applyFilters (line 70)
Query(value) == toLowerCase(trim(value))

\* a letter test that compares the first character as it is written
LetterTestExact(pkg, active) == charAt0(pkg.package_name.s) = <<active>>

\* the callback of the letter filter (line 75)
LetterTest(pkg, active) ==
    toUpperCase(charAt0(pkg.package_name.s)) = <<active>>

\* a query test that searches the name as it is written
QueryTestExact(pkg, query) == indexOf(pkg.package_name.s, query) >= 0

\* the callback of the query filter (line 80)
QueryTest(pkg, query) ==
    indexOf(toLowerCase(pkg.package_name.s), query) >= 0

\* calling a string method on an undefined package_name is a TypeError
Throws(list) == \E i \in DOMAIN list : list[i].package_name.type # "string"

\* lines 73-77: the list after the letter filter
ByLetter(list, active) ==
    IF active # Null
    THEN SelectSeq(list, LAMBDA pkg : LetterTest(pkg, active))
    ELSE list

\* lines 78-82: the list after the query filter
ByQuery(list, query) ==
    IF query # <<>>
    THEN SelectSeq(list, LAMBDA pkg : QueryTest(pkg, query))
    ELSE list

\* a query filter that runs over packages instead of the filtered list
applyFiltersQueryOverAll(pkgs, active, value) ==
    LET query == toLowerCase(trim(value))
    IN [threw |-> FALSE,
        list |-> IF query # <<>> THEN ByQuery(pkgs, query)
                 ELSE ByLetter(pkgs, active)]

\* applyFilters(): the list handed to renderPackages, or a TypeError thrown
\* by the first filter that runs over a record without package_name
applyFilters(pkgs, active, value) ==
    LET query == Query(value)
    IN IF active # Null /\ Throws(pkgs)
       THEN [threw |-> TRUE, list |-> <<>>]
       ELSE IF query # <<>> /\ Throws(ByLetter(pkgs, active))
       THEN [threw |-> TRUE, list |-> <<>>]
       ELSE [threw |-> FALSE, list |-> ByQuery(ByLetter(pkgs, active), query)]

----------------------------------------------------------------------------
(* The page as a record, so that a handler is a function from the state    *)
(* it finds to the state it leaves.                                        *)

Page ==
    [packages |-> packages, activeLetter |-> activeLetter,
     searchValue |-> searchValue, container |-> container,
     alphabet |-> alphabet, activeBtns |-> activeBtns,
     listeners |-> listeners, promise |-> promise, uncaught |-> uncaught]

Becomes(st) ==
    \E now \in {st} :
        /\ packages' = now.packages
        /\ activeLetter' = now.activeLetter
        /\ searchValue' = now.searchValue
        /\ container' = now.container
        /\ alphabet' = now.alphabet
        /\ activeBtns' = now.activeBtns
        /\ listeners' = now.listeners
        /\ promise' = now.promise
        /\ uncaught' = now.uncaught
        /\ UNCHANGED response

\* a call of applyFilters() that filters packages itself, not a copy of it
RefilteredInPlace(st) ==
    LET r == applyFilters(st.packages, st.activeLetter, st.searchValue)
    IN IF r.threw THEN [st EXCEPT !.uncaught = TRUE]
       ELSE [st EXCEPT !.packages = r.list,
                       !.container = renderPackages(r.list)]

\* a listener's call of applyFilters(): the new markup, or, when a filter
\* throws, no assignment to container.innerHTML and an uncaught error
Refiltered(st) ==
    LET r == applyFilters(st.packages, st.activeLetter, st.searchValue)
    IN IF r.threw THEN [st EXCEPT !.uncaught = TRUE]
       ELSE [st EXCEPT !.container = renderPackages(r.list)]

\* the input listener (lines 102-104), the box already holding the new text
onInput(st, text) == Refiltered([st EXCEPT !.searchValue = text])

\* a click that always selects the clicked letter
toggledSelects(active, clicked) == clicked

\* lines 111-115
toggled(active, clicked) == IF active = clicked THEN Null ELSE clicked

\* lines 117-124: the buttons left with the class "active"
marked(buttons, active) == {b \in Range(buttons) : b = active}

\* a click listener that renders the letter's packages whatever the box holds
onClickLetterOnly(st, clicked) ==
    LET now == toggled(st.activeLetter, clicked)
    IN [st EXCEPT !.activeLetter = now,
                  !.activeBtns = marked(st.alphabet, now),
                  !.container = renderPackages(ByLetter(st.packages, now))]

\* a click listener that marks the active button and unmarks no other
onClickKeepsMarks(st, clicked) ==
    LET now == toggled(st.activeLetter, clicked)
    IN Refiltered([st EXCEPT !.activeLetter = now,
                             !.activeBtns =
                                 st.activeBtns \cup marked(st.alphabet, now)])

\* the click listener of a letter button (lines 108-127)
onClick(st, clicked) ==
    LET now == toggled(st.activeLetter, clicked)
    IN Refiltered([st EXCEPT !.activeLetter = now,
                             !.activeBtns = marked(st.alphabet, now)])

\* a handler that builds a button only for the letters some package uses
onDataLettersInUse(st, data) ==
    [st EXCEPT !.packages = data,
               !.alphabet =
                   SelectSeq(letters,
                             LAMBDA l : \E i \in DOMAIN data :
                                           LetterTest(data[i], l)),
               !.container = renderPackages(data),
               !.listeners = TRUE,
               !.promise = "fulfilled"]

\* the handler of the parsed data (lines 90-129); renderPackages reads the
\* properties of each record and calls toFixed on a number only, so that
\* over arrays of records it does not throw
onData(st, data) ==
    [st EXCEPT !.packages = data,
               !.alphabet = letters,
               !.container = renderPackages(data),
               !.listeners = TRUE,
               !.promise = "fulfilled"]

\* a catch handler that shows nothing
onErrorSilent(st) == [st EXCEPT !.promise = "rejected"]

\* a catch handler after which the load is attempted again
onErrorRetries(st) == [st EXCEPT !.container = ErrorMarkup]

\* the catch handler (lines 130-132)
onError(st) ==
    [st EXCEPT !.container = ErrorMarkup, !.promise = "rejected"]

----------------------------------------------------------------------------
(* Actions *)

\* the user edits the search box while no input listener is registered
TypeUnheard(text) ==
    /\ ~listeners
    /\ text # searchValue
    /\ searchValue' = text
    /\ UNCHANGED <<packages, activeLetter, container, alphabet, activeBtns,
                   listeners, promise, uncaught, response>>

\* setQuery: the user edits the search box and the input listener runs
SetQuery(text) ==
    /\ listeners
    /\ text # searchValue
    /\ Becomes(onInput(Page, text))

\* toggleLetter: the user clicks a letter button and its click listener runs
ToggleLetter(clicked) ==
    /\ listeners
    /\ clicked \in Range(alphabet)
    /\ Becomes(onClick(Page, clicked))

\* the fetch and response.json() succeed
LoadSucceeds ==
    /\ promise = "pending"
    /\ Becomes(onData(Page, response))

\* the fetch or response.json() fails
LoadFails ==
    /\ promise = "pending"
    /\ Becomes(onError(Page))

\* a page that registers its listeners before it fetches the data
StartListening ==
    /\ packages = <<>>
    /\ activeLetter = Null
    /\ searchValue = <<>>
    /\ container = LoadingMarkup
    /\ alphabet = <<>>
    /\ activeBtns = {}
    /\ listeners = TRUE
    /\ promise = "pending"
    /\ uncaught = FALSE

Start ==
    /\ packages = <<>>
    /\ activeLetter = Null
    /\ searchValue = <<>>
    /\ container = LoadingMarkup
    /\ alphabet = <<>>
    /\ activeBtns = {}
    /\ listeners = FALSE
    /\ promise = "pending"
    /\ uncaught = FALSE

Init == Start /\ response \in Data

InitMalformed == Start /\ response \in MalformedData

Next ==
    \/ \E text \in Texts : TypeUnheard(text)
    \/ \E text \in Texts : SetQuery(text)
    \/ \E clicked \in Letters : ToggleLetter(clicked)
    \/ LoadSucceeds
    \/ LoadFails

Spec == Init /\ [][Next]_vars

\* the same page served a data file with a record that lacks package_name
SpecMalformed == InitMalformed /\ [][Next]_vars

\* the fetch settles: the browser resolves or rejects the promise
SpecFair == Init /\ [][Next]_vars /\ WF_vars(LoadSucceeds \/ LoadFails)

----------------------------------------------------------------------------
(* What the specification expects of a list, stated without the filters    *)
(* of the code.                                                            *)

NameOf(pkg) == pkg.package_name.s

StartsWith(pkg, l) ==
    Len(NameOf(pkg)) > 0 /\ CharToUpper(NameOf(pkg)[1]) = l

\* name contains q at some position, letters compared without their case
ContainsFolded(name, q) ==
    \E i \in 1..(Len(name) - Len(q) + 1) :
        \A k \in 1..Len(q) : CharToLower(name[i + k - 1]) = CharToLower(q[k])

RECURSIVE DropLeading(_)
DropLeading(text) ==
    IF text # <<>> /\ Head(text) = " " THEN DropLeading(Tail(text)) ELSE text

RECURSIVE DropTrailing(_)
DropTrailing(text) ==
    IF text # <<>> /\ text[Len(text)] = " "
    THEN DropTrailing(SubSeq(text, 1, Len(text) - 1))
    ELSE text

Stripped(text) == DropTrailing(DropLeading(text))

\* whether a package starts with the letter (if any) and contains q
Matches(pkg, active, q) ==
    /\ active = Null \/ StartsWith(pkg, active)
    /\ ContainsFolded(NameOf(pkg), q)

\* the members of L from position i on that match, in the order of L
RECURSIVE ExpectedFrom(_, _, _, _)
ExpectedFrom(L, i, active, q) ==
    IF i > Len(L) THEN <<>>
    ELSE (IF Matches(L[i], active, q) THEN <<L[i]>> ELSE <<>>)
             \o ExpectedFrom(L, i + 1, active, q)

\* the packages of L that start with the letter (if any) and contain q
Expected(L, active, q) == ExpectedFrom(L, 1, active, q)

\* the cards of the first MaxCards members of a list
FirstCards(list) == [i \in 1..Min(Len(list), MaxCards) |-> Card(list[i])]

\* the list a step hands to the renderer: the filtered list when a
\* listener ran, the whole list at the initial render
ListRendered ==
    IF listeners THEN Expected(packages', activeLetter', Stripped(searchValue'))
    ELSE packages'

----------------------------------------------------------------------------
(* C1 *)

\* the cards shown are the first MaxCards packages, in list order, that
\* match the active letter and the trimmed, lower-cased text of the box
Shows(shown, pkgs, active, value) ==
    shown.cards = FirstCards(Expected(pkgs, active, Stripped(value)))

Consistent == Shows(container, packages, activeLetter, searchValue)

\* C1 as stated: in every state after a successful load the rendered cards
\* are exactly the packages matching the active letter and the current
\* query, in list order, cut to the first 50.
C1_AsStated == listeners => Consistent

\* C1 amended: every text-change or letter-click after a successful load,
\* and the load itself when the search box is empty at that moment, leaves
\* the rendered cards exactly the packages matching the active letter and
\* the current trimmed, lower-cased query, in list order, cut to the first 50.
C1_Rendered ==
    [][(listeners' /\ (listeners \/ Stripped(searchValue) = <<>>))
          => Shows(container', packages', activeLetter', searchValue')]_vars

\* the scenario: letter D and query "da" over dplyr, data.table, ggplot2
C1_Witness ==
    /\ listeners
    /\ packages = Scenario
    /\ activeLetter = "D"
    /\ searchValue = <<"d","a">>
    /\ container.cards = <<Card(RecDataTable)>>

----------------------------------------------------------------------------
(* C2 *)

\* C2: every render shows as count the size of the whole list it renders
\* and min(that size, 50) cards.
C2_CountIsFullSize ==
    [][listeners' =>
          /\ container'.kind = "list"
          /\ container'.count = Len(ListRendered)
          /\ Len(container'.cards) = Min(Len(ListRendered), MaxCards)]_vars

\* a filtered list longer than the cap: the count exceeds the cards
C2_Witness ==
    /\ listeners
    /\ activeLetter = "D"
    /\ container.count > MaxCards
    /\ Len(container.cards) = MaxCards

----------------------------------------------------------------------------
(* C3 *)

\* the markup for a list: its size and the cards of its first MaxCards
Markup(list) ==
    [kind |-> "list", count |-> Len(list), cards |-> FirstCards(list)]

\* C3 as stated: with no letter active, setQuery(q) yields the packages
\* whose name contains q itself, compared case-insensitively.
C3_AsStated ==
    (listeners /\ activeLetter = Null) =>
        \A text \in Texts :
            onInput(Page, text).container = Markup(Expected(packages, Null, text))

\* C3 amended: with no letter active, setQuery(q) yields the packages whose
\* name contains q with the white space at its ends removed, compared
\* case-insensitively, in list order; a query that is empty once trimmed
\* yields the whole list.
C3_QueryFilter ==
    (listeners /\ activeLetter = Null) =>
        \A text \in Texts :
            onInput(Page, text).container =
                Markup(Expected(packages, Null, Stripped(text)))

\* the query " Da " over the mixed list finds data.table alone
C3_Witness ==
    /\ listeners
    /\ activeLetter = Null
    /\ packages = Mixed
    /\ searchValue = <<" ","D","a"," ">>
    /\ container.count = 1

----------------------------------------------------------------------------
(* C4 *)

\* C4: with an empty query, a click that activates a letter yields the
\* packages whose first character, upper-cased, is that letter, in list
\* order, and a click that clears the letter yields the whole list.
C4_LetterFilter ==
    (listeners /\ Stripped(searchValue) = <<>>) =>
        \A l \in Letters :
            onClick(Page, l).container =
                Markup(IF activeLetter = l THEN packages
                       ELSE Expected(packages, l, <<>>))

\* letter D over the mixed list: DBI, DT, data.table and dplyr, in that order
C4_Witness ==
    /\ listeners
    /\ packages = Mixed
    /\ activeLetter = "D"
    /\ Stripped(searchValue) = <<>>
    /\ container.count = 4

----------------------------------------------------------------------------
(* C5 *)

\* C5: a click on the active letter clears it, a click on any other letter
\* makes that letter the active one, two clicks on one letter with no
\* letter active leave no letter active, and activeLetter is always one
\* letter or none.
C5_Toggle ==
    /\ activeLetter \in Letters \cup {Null}
    /\ listeners =>
          \A l \in Letters :
             /\ onClick(Page, l).activeLetter =
                   (IF activeLetter = l THEN Null ELSE l)
             /\ activeLetter = Null =>
                   onClick(onClick(Page, l), l).activeLetter = Null

\* a letter was clicked while another was active: the clicked one is active
C5_Witness ==
    /\ listeners
    /\ activeLetter = "G"
    /\ activeBtns = {"G"}
    /\ searchValue = <<"d","a">>
    /\ container.count = 0

----------------------------------------------------------------------------
(* C6 *)

\* C6: from every ready state, for every text and letter, setQuery then
\* toggleLetter leaves the same filter state, cards and count as
\* toggleLetter then setQuery.
C6_Commute ==
    listeners =>
        LET afterInput == [text \in Texts |-> onInput(Page, text)]
            afterClick == [l \in Letters |-> onClick(Page, l)]
        IN \A text \in Texts : \A l \in Letters :
              onClick(afterInput[text], l) = onInput(afterClick[l], text)

\* a state with both filters set, where the order could have mattered
C6_Witness ==
    /\ listeners
    /\ packages = Mixed
    /\ activeLetter = "D"
    /\ searchValue = <<"d","a">>
    /\ container.cards = <<Card(RecDataTable)>>

----------------------------------------------------------------------------
(* C7 *)

\* C7: a failed load shows the error message and leaves packages empty;
\* whenever the error message is shown packages is empty and no later
\* event has thrown.
C7_LoadFailure ==
    /\ promise = "rejected" => container = ErrorMarkup
    /\ container.kind = "error" => (packages = <<>> /\ ~uncaught)

\* the error message, with text typed into the search box
C7_Witness == container = ErrorMarkup /\ searchValue = <<"z">>

----------------------------------------------------------------------------
(* C8 *)

\* C8: the page starts loading and, the fetch settling, leaves that state
\* for the list or for the error message; it never returns to loading, the
\* promise settles once, and nothing replaces the error message.
C8_LoadOnce ==
    /\ (container.kind = "loading") ~> (container.kind \in {"list", "error"})
    /\ [](container.kind = "loading" <=> promise = "pending")
    /\ [][promise # "pending" => promise' = promise]_vars
    /\ [][container.kind # "loading" => container'.kind = container.kind]_vars

\* the error message after the promise was rejected, the user still typing
C8_Witness ==
    /\ promise = "rejected"
    /\ container.kind = "error"
    /\ searchValue = <<"d","a">>

----------------------------------------------------------------------------
(* C9 *)

\* C9 as stated: with a record that lacks package_name in the list, no
\* setQuery or toggleLetter event throws.
C9_NeverThrows == ~uncaught

----------------------------------------------------------------------------
(* C10 *)

NoDescription == <<"N","o"," ","d","e","s","c","r","i","p","t","i","o","n">>

RECURSIVE TextToInt(_)
TextToInt(text) ==
    IF text = <<>> THEN 0
    ELSE 10 * TextToInt(SubSeq(text, 1, Len(text) - 1))
             + (IndexIn(text[Len(text)], digits) - 1)

\* text is a number with one decimal, the nearest one to n hundredths
IsFixedOne(text, n) ==
    /\ Len(text) >= 3
    /\ text[Len(text) - 1] = "."
    /\ \A i \in (1..Len(text)) \ {Len(text) - 1} : text[i] \in Digits
    /\ LET tenths == 10 * TextToInt(SubSeq(text, 1, Len(text) - 2))
                        + TextToInt(<<text[Len(text)]>>)
       IN 10 * tenths - 5 <= n /\ n < 10 * tenths + 5

ScoreBadgeOf(pkg, card) ==
    IF pkg.score.type = "number" THEN IsFixedOne(card.score, pkg.score.n)
    ELSE card.score = <<"N","/","A">>

\* the defaults stand in for absent fields only
CardAsStated(pkg, card) ==
    /\ card.href = (IF pkg.url.type = "undefined" THEN <<"#">> ELSE pkg.url.s)
    /\ card.description =
         (IF pkg.title.type = "undefined" THEN NoDescription ELSE pkg.title.s)
    /\ ScoreBadgeOf(pkg, card)

\* the defaults stand in for absent and for empty fields
CardWithDefaults(pkg, card) ==
    /\ card.href =
         (IF pkg.url.type = "undefined" \/ pkg.url.s = <<>> THEN <<"#">>
          ELSE pkg.url.s)
    /\ card.description =
         (IF pkg.title.type = "undefined" \/ pkg.title.s = <<>>
          THEN NoDescription ELSE pkg.title.s)
    /\ ScoreBadgeOf(pkg, card)

\* C10 as stated: every card links to url, or "#" when url is absent,
\* describes with title, or "No description" when title is absent, and
\* shows the score with one decimal, or "N/A" when score is no number.
C10_AsStated ==
    [][listeners' =>
          \E list \in {ListRendered} :
             \A i \in DOMAIN container'.cards :
                CardAsStated(list[i], container'.cards[i])]_vars

\* C10 amended: every card links to url, or "#" when url is absent or
\* empty, describes with title, or "No description" when title is absent
\* or empty, and shows the score with one decimal, or "N/A" when score is
\* absent or no number.
C10_Defaults ==
    [][listeners' =>
          \E list \in {ListRendered} :
             \A i \in DOMAIN container'.cards :
                CardWithDefaults(list[i], container'.cards[i])]_vars

\* the card of a record with no title, no url and no score
C10_Witness ==
    /\ listeners
    /\ packages = <<RecDBI>>
    /\ container.cards =
         <<[href |-> <<"#">>, name |-> DBI, score |-> <<"N","/","A">>,
            description |-> NoDescription]>>

----------------------------------------------------------------------------
(* C11 *)

\* the markup of no results: a count of 0 and no card
NoResults == [kind |-> "list", count |-> 0, cards |-> <<>>]

\* what an event leaves of a page: no error, and the markup of the packages
\* that match the letter and the text it leaves
Renders(after) ==
    /\ ~after.uncaught
    /\ after.container =
         Markup(Expected(after.packages, after.activeLetter,
                         Stripped(after.searchValue)))
    /\ Expected(after.packages, after.activeLetter,
                Stripped(after.searchValue)) = <<>>
          => after.container = NoResults

\* C11: every text and every letter gives a page that renders: the markup
\* is a list, with count 0 and no card when nothing matches (the empty
\* data file included), never an error; and from a page with no results
\* every further event renders like from any other page.
C11_AlwaysRenders ==
    listeners =>
        /\ container.kind = "list"
        /\ ~uncaught
        /\ packages = <<>> => container = NoResults
        /\ \A text \in Texts : Renders(onInput(Page, text))
        /\ \A l \in Letters : Renders(onClick(Page, l))

\* no package of the mixed list starts with G and contains "da"
C11_Witness ==
    /\ listeners
    /\ packages = Mixed
    /\ activeLetter = "G"
    /\ searchValue = <<" ","D","a"," ">>
    /\ container = NoResults

----------------------------------------------------------------------------
(* C12 *)

\* C12: a successful load builds 26 letter controls, one for each letter
\* whatever the names of the packages, leaves no letter active or marked,
\* and renders the whole list: its length as count, its first 50 as cards.
C12_Initialization ==
    [][LoadSucceeds =>
          /\ Len(alphabet') = 26
          /\ {alphabet'[i] : i \in DOMAIN alphabet'} =
                {CharToUpper(c) : c \in Range(lowerLetters)}
          /\ activeLetter' = Null
          /\ activeBtns' = {}
          /\ packages' = response
          /\ container'.count = Len(response)
          /\ container'.cards = FirstCards(response)]_vars

\* the long list just loaded, text typed before in the box: 26 buttons,
\* a count of all the records and the first 50 cards
C12_Witness ==
    /\ promise = "fulfilled"
    /\ packages = LongList
    /\ Len(alphabet) = 26
    /\ activeLetter = Null
    /\ searchValue = <<"z">>
    /\ container.count = Len(LongList)
    /\ Len(container.cards) = MaxCards

----------------------------------------------------------------------------
(* C13 *)

\* the marked buttons are the button of the active letter, or none
MarksFollow(btns, active) ==
    /\ Cardinality(btns) <= 1
    /\ btns = (IF active = Null THEN {} ELSE {active})

\* C13: after every letter click the buttons marked active are exactly the
\* button of activeLetter, the letter the cards are filtered by, or none
\* when no letter is active; two buttons are never marked at once.
C13_OneMarked ==
    /\ MarksFollow(activeBtns, activeLetter)
    /\ listeners =>
          \A l \in Letters :
             \E after \in {onClick(Page, l)} :
                /\ MarksFollow(after.activeBtns, after.activeLetter)
                /\ after.container =
                     Markup(Expected(packages, after.activeLetter,
                                     Stripped(searchValue)))

\* B clicked with the text "z" in the box: B alone is marked, no card shown
C13_Witness ==
    /\ listeners
    /\ packages = Mixed
    /\ activeLetter = "B"
    /\ activeBtns = {"B"}
    /\ container.count = 0
    /\ searchValue = <<"z">>

----------------------------------------------------------------------------
(* C14 *)

\* C14: setQuery leaves activeLetter and the marked button as they are,
\* toggleLetter leaves the text of the search box as it is, neither changes
\* the packages list or its order, and packages is assigned once, by the
\* successful load, with the content of the data file.
C14_Frame ==
    /\ [](listeners =>
            /\ packages = response
            /\ \A text \in Texts :
                  \E after \in {onInput(Page, text)} :
                     /\ after.activeLetter = activeLetter
                     /\ after.activeBtns = activeBtns
                     /\ after.packages = packages
            /\ \A l \in Letters :
                  \E after \in {onClick(Page, l)} :
                     /\ after.searchValue = searchValue
                     /\ after.packages = packages)
    /\ [][packages' # packages
             => (promise = "pending" /\ promise' = "fulfilled")]_vars
    /\ [][searchValue' # searchValue
             => (activeLetter' = activeLetter /\ activeBtns' = activeBtns)]_vars
    /\ [][activeLetter' # activeLetter => searchValue' = searchValue]_vars

\* the mixed list after a letter and a text that leave two packages shown:
\* packages still holds all of it, in the order of the data file
C14_Witness ==
    /\ listeners
    /\ activeLetter = "D"
    /\ searchValue = <<"b">>
    /\ container.cards = <<Card(RecDBI), Card(RecDataTable)>>
    /\ packages = Mixed

----------------------------------------------------------------------------
(* C15 *)

\* C15: while the load is pending, whatever the user types, the page shows
\* the loading text, no letter is active, packages is empty and there is no
\* letter button; the listeners exist only once the load has succeeded and
\* the list has been rendered.
C15_NoFilterWhileLoading ==
    /\ promise = "pending" =>
          /\ container = LoadingMarkup
          /\ activeLetter = Null
          /\ packages = <<>>
          /\ alphabet = <<>>
          /\ activeBtns = {}
          /\ ~listeners
    /\ listeners => (promise = "fulfilled" /\ container.kind = "list")

\* text typed into the search box while the fetch is pending
C15_Witness ==
    /\ promise = "pending"
    /\ searchValue = <<"d","a">>
    /\ container = LoadingMarkup

====
